---- MODULE Spec2Model ----
(***************************************************************************)
(* Model of vnpy/trader/database/database_mongo.py: the MongoManager that  *)
(* keeps bars in one pymongo collection per (exchange, symbol),            *)
(* "kline:<ex>:<s>", and ticks in the mongoengine collection of DbTickData.*)
(*                                                                         *)
(* A collection is a bag of documents (the _id that the server adds to     *)
(* every inserted document is left out, so two inserts of equal documents  *)
(* are two copies in the bag).  The order of documents with equal sort     *)
(* keys is not fixed by the server: an operation that takes "the first"    *)
(* document of a sorted cursor may take any document with the extreme key. *)
(***************************************************************************)
EXTENDS Bags, FiniteSets, Integers, Sequences, TLC

\* ---------------------------------------------------------------- bounds
MaxTime == 3        \* datetimes are 1..MaxTime
MaxVersion == 2     \* distinct payloads of a tick
MaxBarVersion == 1  \* distinct payloads of a bar
MaxBatch == 2       \* longest batch handed to save_bar_data / save_tick_data
MaxRows == 3        \* most bar rows in the database, all partitions together
MaxTicks == 2       \* most tick rows in db_tick_data
MaxTicksOne == 3    \* most tick rows where one instrument's ticks are saved

\* ------------------------------------------------- enumerations and text
Symbols == {"ABC", "abc", "XYZ"}
Exchanges == {"Exchange.SSE", "Exchange.SZSE"}
Intervals == {"Interval.MINUTE", "Interval.HOUR"}
\* the (symbol, exchange) pairs that callers save and ask for: two spellings
\* of one symbol, a second symbol on the same exchange, and the first symbol
\* on a second exchange
Instruments ==
    { <<"ABC", "Exchange.SSE">>, <<"abc", "Exchange.SSE">>,
      <<"XYZ", "Exchange.SSE">>, <<"ABC", "Exchange.SZSE">> }
Times == 1..MaxTime
Versions == 1..MaxVersion
BarVersions == 1..MaxBarVersion

\* str.lower()
Lower(str) ==
    CASE str = "ABC" -> "abc"
      [] str = "XYZ" -> "xyz"
      [] str = "SSE" -> "sse"
      [] str = "SZSE" -> "szse"
      [] OTHER -> str

\* str.upper()
Upper(str) ==
    CASE str = "abc" -> "ABC"
      [] str = "xyz" -> "XYZ"
      [] str = "sse" -> "SSE"
      [] str = "szse" -> "SZSE"
      [] OTHER -> str

\* Exchange.value
ExchangeValue(e) ==
    CASE e = "Exchange.SSE" -> "SSE"
      [] e = "Exchange.SZSE" -> "SZSE"

\* Exchange(value): the member with that value, ValueError when there is none
ExchangeOf(v) ==
    IF \E e \in Exchanges : ExchangeValue(e) = v
    THEN CHOOSE e \in Exchanges : ExchangeValue(e) = v
    ELSE "ValueError"

\* Interval.value
IntervalValue(i) ==
    CASE i = "Interval.MINUTE" -> "1m"
      [] i = "Interval.HOUR" -> "1h"

\* Interval(value)
IntervalOf(v) ==
    IF \E i \in Intervals : IntervalValue(i) = v
    THEN CHOOSE i \in Intervals : IntervalValue(i) = v
    ELSE "ValueError"

\* data_list[0].exchange.lower() in save_bar_data: the lower-case string code
\* of the exchange (the Exchange type is not part of this file).
Exchange_lower(e) == Lower(ExchangeValue(e))

\* ------------------------------------------------------------- BarData
\* A bar handed in by a caller; the payload v gives six different numbers.
MkBar(s, e, i, t, v) ==
    [symbol |-> s, exchange |-> e, interval |-> i, datetime |-> t,
     volume |-> 40 + v, open_interest |-> 50 + v,
     open_price |-> v, high_price |-> 10 + v,
     low_price |-> 20 + v, close_price |-> 30 + v,
     gateway_name |-> "GW"]

\* to_bar(ex, s, o)
to_bar(ex, s, o) ==
    [symbol |-> s, exchange |-> ExchangeOf(Upper(ex)),
     interval |-> IntervalOf(o.period), datetime |-> o.datetime,
     volume |-> o.volume, open_interest |-> o.open_interest,
     open_price |-> o.open, high_price |-> o.high,
     low_price |-> o.low, close_price |-> o.close,
     gateway_name |-> "DB"]

\* (mutant) the document is labelled with the record's own symbol and
\* exchange
from_bar_OwnLabels(ex, s, data) ==
    [datetime |-> data.datetime, open |-> data.open_price,
     close |-> data.close_price, high |-> data.high_price,
     low |-> data.low_price, volume |-> data.volume,
     open_interest |-> data.open_interest,
     period |-> IntervalValue(data.interval),
     symbol |-> Lower(data.symbol), ex |-> Lower(ExchangeValue(data.exchange))]

\* from_bar(ex, s, data)
from_bar(ex, s, data) ==
    [datetime |-> data.datetime, open |-> data.open_price,
     close |-> data.close_price, high |-> data.high_price,
     low |-> data.low_price, volume |-> data.volume,
     open_interest |-> data.open_interest,
     period |-> IntervalValue(data.interval),
     symbol |-> s, ex |-> ex]

\* ------------------------------------------------------------ the store
VARIABLES
    db,             \* pymongo database: collection name -> bag of documents;
                    \* DOMAIN db is db.list_collection_names()
    db_tick_data,   \* the mongoengine collection of DbTickData: bag of rows
                    \* (mongoengine's connection is made outside this file
                    \* and is taken to be there)
    ret,            \* what the last call did and returned
    saving,         \* the save_bar_data call that has deleted and not yet
                    \* inserted: <<>> when there is none, else <<its locals>>
    mongo           \* the module's global client: "None" before init,
                    \* "MongoClient" after it, "closed" after mongo.close()

vars == <<db, db_tick_data, ret, saving, mongo>>

\* (mutant) one collection per exchange
KlineName_NoSymbol(ex, s) == <<"kline", ex, ex>>

\* f'kline:{ex}:{s}'
KlineName(ex, s) == <<"kline", ex, s>>

\* db[name]: a collection that does not exist reads as empty
Col(d, name) == IF name \in DOMAIN d THEN d[name] ELSE EmptyBag

\* number of documents of a bag
Count(b) == BagCardinality(b)

\* the sub-bag of b with the documents of S, a subset of DOMAIN b
Restrict(b, S) == [o \in S |-> b[o]]

\* ---- query filters of the server:  field -> set of <<operator, operand>>
KnownOperators == {"$eq", "$gt", "$gte", "$lt", "$lte"}

\* one condition on one value
CondHolds(val, cond) ==
    CASE cond[1] = "$eq" -> val = cond[2]
      [] cond[1] = "$gt" -> val > cond[2]
      [] cond[1] = "$gte" -> val >= cond[2]
      [] cond[1] = "$lt" -> val < cond[2]
      [] cond[1] = "$lte" -> val <= cond[2]
      [] OTHER -> FALSE

\* the server rejects a filter that uses an operator it does not know
\* (OperationFailure: unknown operator)
FilterOk(flt) ==
    \A c \in flt.datetime : c[1] \in KnownOperators

\* {'period': p, 'datetime': {...}}
Matches(o, flt) ==
    /\ o.period = flt.period
    /\ \A c \in flt.datetime : CondHolds(o.datetime, c)

\* collection.find(filter), before any sort
Find(col, flt) == Restrict(col, {o \in DOMAIN col : Matches(o, flt)})

\* collection.delete_many(filter): what is left
DeleteMany(col, flt) == Restrict(col, {o \in DOMAIN col : ~Matches(o, flt)})

\* collection.insert_many(docs): docs is a sequence
RECURSIVE InsertMany(_, _)
InsertMany(col, docs) ==
    IF docs = <<>> THEN col
    ELSE InsertMany(col (+) SetToBag({Head(docs)}), Tail(docs))

\* the database after collection `name` holds `col`; a collection comes into
\* being with its first insert
WithCol(d, name, col) ==
    [n \in DOMAIN d \cup {name} |-> IF n = name THEN col ELSE d[n]]

\* collection.drop()
Drop(d, names) == [n \in DOMAIN d \ names |-> d[n]]

TotalRows(d) ==
    LET RECURSIVE Sum(_)
        Sum(S) == IF S = {} THEN 0
                  ELSE LET n == CHOOSE x \in S : TRUE
                       IN Count(d[n]) + Sum(S \ {n})
    IN Sum(DOMAIN d)

\* ------------------------------------------------------------ cursors
\* the orders in which a cursor may hand out the documents of a bag
Orderings(b) ==
    { sq \in [1..Count(b) -> DOMAIN b] :
        \A o \in DOMAIN b : Cardinality({k \in 1..Count(b) : sq[k] = o}) = b[o] }

\* cursor.sort('datetime', 1)
SortAsc(b) ==
    { sq \in Orderings(b) :
        \A k \in 1..(Len(sq) - 1) : sq[k].datetime <= sq[k + 1].datetime }

\* cursor.sort('datetime', 1).limit(1)[0]: the documents that may come first
FirstAsc(b) == { o \in DOMAIN b : \A x \in DOMAIN b : o.datetime <= x.datetime }

\* (mutant) the descending sort sorts ascending
FirstDesc_Ascending(b) == FirstAsc(b)

\* cursor.sort('datetime', -1).limit(1)[0]
FirstDesc(b) == { o \in DOMAIN b : \A x \in DOMAIN b : o.datetime >= x.datetime }

\* ------------------------------------------------------------ batches
\* min(data_list, key=lambda x: x.datetime).datetime
MinTime(data_list) ==
    CHOOSE t \in {data_list[k].datetime : k \in DOMAIN data_list} :
        \A k \in DOMAIN data_list : t <= data_list[k].datetime

\* max(data_list, key=lambda x: x.datetime).datetime
MaxTimeOf(data_list) ==
    CHOOSE t \in {data_list[k].datetime : k \in DOMAIN data_list} :
        \A k \in DOMAIN data_list : t >= data_list[k].datetime

\* A batch of n bars of one symbol and exchange; interval, datetime and
\* payload of each record are given by f.
BarBatch(s, e, n, f) == [k \in 1..n |-> MkBar(s, e, f[k][1], f[k][2], f[k][3])]

BarBatchShapes(n) == [1..n -> Intervals \X Times \X BarVersions]

\* What a call hands back: how it ended ("ok" or the exception it raised) and
\* the value it returned.  An Optional value is <<>> for None and <<x>> for x.
Returned(value) == [outcome |-> "ok", value |-> value]
Raised(exception) == [outcome |-> exception, value |-> <<>>]

\* ret after a call of op with the result r
Call(op, r) == [op |-> op, outcome |-> r.outcome, value |-> r.value]

\* the state after init(driver, settings) on an empty database
Init ==
    /\ db = <<>>
    /\ db_tick_data = EmptyBag
    /\ ret = Call("init", Returned(<<>>))
    /\ saving = <<>>
    /\ mongo = "MongoClient"

\* ------------------------------------------------------ load_bar_data
\* the filter of line 314
LoadBarFilter(p, start, end) ==
    [period |-> p, datetime |-> {<<"$gte", start>>, <<"$let", end>>}]

\* the results that load_bar_data can have on database d
load_bar_data(d, symbol, exchange, interval, start, end) ==
    LET ex == Lower(ExchangeValue(exchange))
        s == Lower(symbol)
        col == Col(d, KlineName(ex, s))
        flt == LoadBarFilter(IntervalValue(interval), start, end)
    IN IF FilterOk(flt)
       THEN { Returned([k \in DOMAIN res |-> to_bar(ex, s, res[k])]) :
                res \in SortAsc(Find(col, flt)) }
       ELSE { Raised("OperationFailure") }

LoadBarData(symbol, exchange, interval, start, end) ==
    /\ \E r \in load_bar_data(db, symbol, exchange, interval, start, end) :
          ret' = Call("load_bar_data", r)
    /\ UNCHANGED <<db, db_tick_data, saving, mongo>>

\* ------------------------------------------------------ save_bar_data
\* (mutant) the delete takes the rows at the two ends of the range as well
SaveBarFilter_Inclusive(p, min_time, max_time) ==
    [period |-> p, datetime |-> {<<"$gte", min_time>>, <<"$lte", max_time>>}]

\* the filter of line 342
SaveBarFilter(p, min_time, max_time) ==
    [period |-> p, datetime |-> {<<"$gt", min_time>>, <<"$lt", max_time>>}]

\* lines 338 to 342 of a non-empty batch: the database after the delete_many.
\* A delete_many on a collection that does not exist leaves it not existing.
save_bar_delete(d, data_list) ==
    LET min_time == MinTime(data_list)
        max_time == MaxTimeOf(data_list)
        ex == Exchange_lower(data_list[1].exchange)
        s == Lower(data_list[1].symbol)
        p == IntervalValue(data_list[1].interval)
        name == KlineName(ex, s)
    IN IF name \in DOMAIN d
       THEN WithCol(d, name, DeleteMany(d[name], SaveBarFilter(p, min_time, max_time)))
       ELSE d

\* lines 343 and 344: the database after the insert_many
save_bar_insert(d, data_list) ==
    LET ex == Exchange_lower(data_list[1].exchange)
        s == Lower(data_list[1].symbol)
        name == KlineName(ex, s)
        ds == [k \in DOMAIN data_list |-> from_bar(ex, s, data_list[k])]
    IN WithCol(d, name, InsertMany(Col(d, name), ds))

\* the database that a save_bar_data leaves when nothing runs between its
\* two storage calls
save_bar_data(d, data_list) ==
    IF Len(data_list) = 0 THEN d
    ELSE save_bar_insert(save_bar_delete(d, data_list), data_list)

\* (mutant) the delete and the insert are issued for an empty batch as well
save_bar_data_calls_NoEmptyCheck(data_list) == <<"delete_many", "insert_many">>

\* the storage calls that save_bar_data issues
save_bar_data_calls(data_list) ==
    IF Len(data_list) = 0 THEN <<>> ELSE <<"delete_many", "insert_many">>

\* some record of the batch is of another symbol or exchange than the first
Mixed(data_list) ==
    \E k \in DOMAIN data_list :
        \/ data_list[k].symbol # data_list[1].symbol
        \/ data_list[k].exchange # data_list[1].exchange

\* ret.deleted is the deleted_count of the delete_many, ret.calls the storage
\* calls that were issued, ret.mixed whether the batch was of more than one
\* symbol or exchange
SaveBarData(data_list) ==
    /\ TotalRows(save_bar_data(db, data_list)) <= MaxRows
    /\ db' = save_bar_data(db, data_list)
    /\ ret' = [op |-> "save_bar_data", outcome |-> "ok", value |-> <<>>,
               deleted |-> TotalRows(db) + Len(data_list) - TotalRows(db'),
               calls |-> save_bar_data_calls(data_list),
               mixed |-> Mixed(data_list)]
    /\ UNCHANGED <<db_tick_data, saving, mongo>>

\* ---------------------------------- get_newest_bar_data / get_oldest_bar_data
\* {'period': interval.value}
PeriodFilter(p) == [period |-> p, datetime |-> {}]

\* `if res:` tests the cursor object, which is true whatever it holds, so the
\* else branch is never taken; res[0] of a cursor without documents raises
\* IndexError.
get_newest_bar_data(d, symbol, exchange, interval) ==
    LET ex == Lower(ExchangeValue(exchange))
        s == Lower(symbol)
        res == Find(Col(d, KlineName(ex, s)), PeriodFilter(IntervalValue(interval)))
    IN IF DOMAIN res = {}
       THEN { Raised("IndexError") }
       ELSE { Returned(<<to_bar(ex, s, o)>>) : o \in FirstDesc(res) }

GetNewestBarData(symbol, exchange, interval) ==
    /\ \E r \in get_newest_bar_data(db, symbol, exchange, interval) :
          ret' = Call("get_newest_bar_data", r)
    /\ UNCHANGED <<db, db_tick_data, saving, mongo>>

get_oldest_bar_data(d, symbol, exchange, interval) ==
    LET ex == Lower(ExchangeValue(exchange))
        s == Lower(symbol)
        res == Find(Col(d, KlineName(ex, s)), PeriodFilter(IntervalValue(interval)))
    IN IF DOMAIN res = {}
       THEN { Raised("IndexError") }
       ELSE { Returned(<<to_bar(ex, s, o)>>) : o \in FirstAsc(res) }

GetOldestBarData(symbol, exchange, interval) ==
    /\ \E r \in get_oldest_bar_data(db, symbol, exchange, interval) :
          ret' = Call("get_oldest_bar_data", r)
    /\ UNCHANGED <<db, db_tick_data, saving, mongo>>

\* ----------------------------------------------- get_bar_data_statistics
\* db['col_name'] of line 392: the collection whose name is the text
\* "col_name", which no operation of the manager ever writes
StatisticsCountName(col_name) == <<"col_name">>

\* db['col_name'].count_documents({'period': p})
StatisticsCount(d, col_name, p) ==
    Count(Find(Col(d, StatisticsCountName(col_name)), PeriodFilter(p)))

\* the entries that the two loops append: one per collection and distinct
\* period
StatisticsEntries(d) ==
    { [symbol |-> col_name[3], exchange |-> Upper(col_name[2]),
       interval |-> p, count |-> StatisticsCount(d, col_name, p)] :
        <<col_name, p>> \in
          UNION { {n} \X {o.period : o \in DOMAIN d[n]} :
                    n \in {i \in DOMAIN d : i[1] = "kline"} } }

\* the lists that get_bar_data_statistics can return: the order of the
\* entries is that of list_collection_names and of distinct, which the
\* server chooses
get_bar_data_statistics(d) ==
    { Returned(res) : res \in Orderings(SetToBag(StatisticsEntries(d))) }

GetBarDataStatistics ==
    /\ \E r \in get_bar_data_statistics(db) :
          ret' = Call("get_bar_data_statistics", r)
    /\ UNCHANGED <<db, db_tick_data, saving, mongo>>

\* ------------------------------------------------------ delete_bar_data
\* ret remembers the arguments of the call
DeleteBarData(symbol, exchange, interval) ==
    LET ex == Lower(ExchangeValue(exchange))
        s == Lower(symbol)
        name == KlineName(ex, s)
        count == Count(Col(db, name))
    IN /\ db' = Drop(db, {name})
       /\ ret' = [op |-> "delete_bar_data", outcome |-> "ok", value |-> count,
                  symbol |-> symbol, exchange |-> exchange, interval |-> interval]
       /\ UNCHANGED <<db_tick_data, saving, mongo>>

\* ---------------------------------------------------------------- clean
\* the collections that clean(symbol) drops
CleanNames(d, symbol) ==
    { col_name \in DOMAIN d :
        /\ col_name[1] \in {"kline", "tick"}
        /\ Lower(symbol) = col_name[3] }

\* ret remembers the argument of the call
Clean(symbol) ==
    /\ db' = Drop(db, CleanNames(db, symbol))
    /\ ret' = [op |-> "clean", outcome |-> "ok", value |-> <<>>,
               symbol |-> symbol]
    /\ UNCHANGED <<db_tick_data, saving, mongo>>

\* ------------------------------------------------------------ TickData
\* A tick handed in by a caller.  Payload 1 has no depth beyond level 1
\* (bid_price_2 = 0) although its levels 3 to 5 hold numbers.
MkTick(s, e, t, v) ==
    [symbol |-> s, exchange |-> e, datetime |-> t, name |-> "name",
     volume |-> 100 + v, open_interest |-> 110 + v,
     last_price |-> 120 + v, last_volume |-> 130 + v,
     limit_up |-> 140 + v, limit_down |-> 150 + v,
     open_price |-> 160 + v, high_price |-> 170 + v,
     low_price |-> 180 + v, pre_close |-> 190 + v,
     bid_price_1 |-> 200 + v, bid_price_2 |-> IF v = 1 THEN 0 ELSE 210 + v,
     bid_price_3 |-> 220 + v, bid_price_4 |-> 230 + v, bid_price_5 |-> 240 + v,
     ask_price_1 |-> 300 + v, ask_price_2 |-> 310 + v,
     ask_price_3 |-> 320 + v, ask_price_4 |-> 330 + v, ask_price_5 |-> 340 + v,
     bid_volume_1 |-> 400 + v, bid_volume_2 |-> 410 + v,
     bid_volume_3 |-> 420 + v, bid_volume_4 |-> 430 + v, bid_volume_5 |-> 440 + v,
     ask_volume_1 |-> 500 + v, ask_volume_2 |-> 510 + v,
     ask_volume_3 |-> 520 + v, ask_volume_4 |-> 530 + v, ask_volume_5 |-> 540 + v,
     gateway_name |-> "GW", vt_symbol |-> <<s, ExchangeValue(e)>>]

\* to_update_param(d) without set__gateway_name and set__vt_symbol: the
\* fields that the upsert sets, an Enum replaced by its value
to_update_param(d) ==
    [symbol |-> d.symbol, exchange |-> ExchangeValue(d.exchange),
     datetime |-> d.datetime, name |-> d.name,
     volume |-> d.volume, open_interest |-> d.open_interest,
     last_price |-> d.last_price, last_volume |-> d.last_volume,
     limit_up |-> d.limit_up, limit_down |-> d.limit_down,
     open_price |-> d.open_price, high_price |-> d.high_price,
     low_price |-> d.low_price, pre_close |-> d.pre_close,
     bid_price_1 |-> d.bid_price_1, bid_price_2 |-> d.bid_price_2,
     bid_price_3 |-> d.bid_price_3, bid_price_4 |-> d.bid_price_4,
     bid_price_5 |-> d.bid_price_5,
     ask_price_1 |-> d.ask_price_1, ask_price_2 |-> d.ask_price_2,
     ask_price_3 |-> d.ask_price_3, ask_price_4 |-> d.ask_price_4,
     ask_price_5 |-> d.ask_price_5,
     bid_volume_1 |-> d.bid_volume_1, bid_volume_2 |-> d.bid_volume_2,
     bid_volume_3 |-> d.bid_volume_3, bid_volume_4 |-> d.bid_volume_4,
     bid_volume_5 |-> d.bid_volume_5,
     ask_volume_1 |-> d.ask_volume_1, ask_volume_2 |-> d.ask_volume_2,
     ask_volume_3 |-> d.ask_volume_3, ask_volume_4 |-> d.ask_volume_4,
     ask_volume_5 |-> d.ask_volume_5]

\* the fields of the levels 2 to 5 of both sides
DepthFields ==
    { "bid_price_2", "bid_price_3", "bid_price_4", "bid_price_5",
      "ask_price_2", "ask_price_3", "ask_price_4", "ask_price_5",
      "bid_volume_2", "bid_volume_3", "bid_volume_4", "bid_volume_5",
      "ask_volume_2", "ask_volume_3", "ask_volume_4", "ask_volume_5" }

\* (mutant) the levels 2 to 5 are never copied
from_tick_NoDepth(tick) ==
    [symbol |-> tick.symbol, exchange |-> ExchangeValue(tick.exchange),
     datetime |-> tick.datetime, name |-> tick.name,
     volume |-> tick.volume, open_interest |-> tick.open_interest,
     last_price |-> tick.last_price, last_volume |-> tick.last_volume,
     limit_up |-> tick.limit_up, limit_down |-> tick.limit_down,
     open_price |-> tick.open_price, high_price |-> tick.high_price,
     low_price |-> tick.low_price, pre_close |-> tick.pre_close,
     bid_price_1 |-> tick.bid_price_1, ask_price_1 |-> tick.ask_price_1,
     bid_volume_1 |-> tick.bid_volume_1, ask_volume_1 |-> tick.ask_volume_1]

\* DbTickData.from_tick: a field that is not assigned is not in the document
from_tick(tick) ==
    LET db_tick ==
          [symbol |-> tick.symbol, exchange |-> ExchangeValue(tick.exchange),
           datetime |-> tick.datetime, name |-> tick.name,
           volume |-> tick.volume, open_interest |-> tick.open_interest,
           last_price |-> tick.last_price, last_volume |-> tick.last_volume,
           limit_up |-> tick.limit_up, limit_down |-> tick.limit_down,
           open_price |-> tick.open_price, high_price |-> tick.high_price,
           low_price |-> tick.low_price, pre_close |-> tick.pre_close,
           bid_price_1 |-> tick.bid_price_1, ask_price_1 |-> tick.ask_price_1,
           bid_volume_1 |-> tick.bid_volume_1, ask_volume_1 |-> tick.ask_volume_1]
    IN IF tick.bid_price_2 # 0
       THEN db_tick @@ [fld \in DepthFields |-> tick[fld]]
       ELSE db_tick

\* DbTickData.to_tick: `if self.bid_price_2:` is false for a field that is
\* not there (None) and for 0; the levels 2 to 5 then keep the 0 that a new
\* TickData has
to_tick(self) ==
    LET depth == "bid_price_2" \in DOMAIN self /\ self.bid_price_2 # 0
        D(fld) == IF depth THEN self[fld] ELSE 0
    IN [symbol |-> self.symbol, exchange |-> ExchangeOf(self.exchange),
        datetime |-> self.datetime, name |-> self.name,
        volume |-> self.volume, open_interest |-> self.open_interest,
        last_price |-> self.last_price, last_volume |-> self.last_volume,
        limit_up |-> self.limit_up, limit_down |-> self.limit_down,
        open_price |-> self.open_price, high_price |-> self.high_price,
        low_price |-> self.low_price, pre_close |-> self.pre_close,
        bid_price_1 |-> self.bid_price_1, bid_price_2 |-> D("bid_price_2"),
        bid_price_3 |-> D("bid_price_3"), bid_price_4 |-> D("bid_price_4"),
        bid_price_5 |-> D("bid_price_5"),
        ask_price_1 |-> self.ask_price_1, ask_price_2 |-> D("ask_price_2"),
        ask_price_3 |-> D("ask_price_3"), ask_price_4 |-> D("ask_price_4"),
        ask_price_5 |-> D("ask_price_5"),
        bid_volume_1 |-> self.bid_volume_1, bid_volume_2 |-> D("bid_volume_2"),
        bid_volume_3 |-> D("bid_volume_3"), bid_volume_4 |-> D("bid_volume_4"),
        bid_volume_5 |-> D("bid_volume_5"),
        ask_volume_1 |-> self.ask_volume_1, ask_volume_2 |-> D("ask_volume_2"),
        ask_volume_3 |-> D("ask_volume_3"), ask_volume_4 |-> D("ask_volume_4"),
        ask_volume_5 |-> D("ask_volume_5"),
        gateway_name |-> "DB",
        vt_symbol |-> <<self.symbol, self.exchange>>]

\* A batch of n ticks of one symbol and exchange.
TickBatch(s, e, n, f) == [k \in 1..n |-> MkTick(s, e, f[k][1], f[k][2])]

TickBatchShapes(n) == [1..n -> Times \X Versions]

\* ------------------------------------------------------ save_tick_data
\* DbTickData.objects(symbol=, exchange=, datetime=)
TickKeyMatches(row, symbol, exchange_value, datetime) ==
    /\ row.symbol = symbol
    /\ row.exchange = exchange_value
    /\ row.datetime = datetime

\* (mutant) every tick is inserted as a new row
UpsertOne_AlwaysInsert(rows, d) == rows (+) SetToBag({to_update_param(d)})

\* .update_one(upsert=True, **updates): one matching row takes the fields, or
\* a new row is inserted when none matches
UpsertOne(rows, d) ==
    LET hit == { row \in DOMAIN rows :
                    TickKeyMatches(row, d.symbol, ExchangeValue(d.exchange),
                                   d.datetime) }
    IN IF hit = {}
       THEN rows (+) SetToBag({to_update_param(d)})
       ELSE LET row == CHOOSE x \in hit : TRUE
            IN (rows (-) SetToBag({row})) (+) SetToBag({to_update_param(d)})

\* (mutant) the rows strictly between the first and the last datetime of the
\* batch are deleted and the batch is inserted, as save_bar_data does
save_tick_data_ReplaceRange(rows, datas) ==
    IF datas = <<>> THEN rows
    ELSE LET kept == { row \in DOMAIN rows :
                         ~(/\ row.symbol = datas[1].symbol
                           /\ row.exchange = ExchangeValue(datas[1].exchange)
                           /\ row.datetime > MinTime(datas)
                           /\ row.datetime < MaxTimeOf(datas)) }
         IN InsertMany(Restrict(rows, kept),
                       [k \in DOMAIN datas |-> to_update_param(datas[k])])

\* the loop of save_tick_data: the rows it leaves
RECURSIVE save_tick_data(_, _)
save_tick_data(rows, datas) ==
    IF datas = <<>> THEN rows
    ELSE save_tick_data(UpsertOne(rows, Head(datas)), Tail(datas))

\* the storage calls that save_tick_data issues: one update_one per tick
save_tick_data_calls(datas) == [k \in DOMAIN datas |-> "update_one"]

\* the rows of the batch's symbol and exchange that lie strictly between the
\* first and the last datetime of the batch, at a datetime not in the batch
TicksBetween(rows, datas) ==
    IF datas = <<>> THEN EmptyBag
    ELSE Restrict(rows,
           { row \in DOMAIN rows :
               /\ row.symbol = datas[1].symbol
               /\ row.exchange = ExchangeValue(datas[1].exchange)
               /\ MinTime(datas) < row.datetime
               /\ row.datetime < MaxTimeOf(datas)
               /\ \A k \in DOMAIN datas : datas[k].datetime # row.datetime })

\* save_tick_data where at most `most` rows are stored.  ret.n is the length
\* of the batch, ret.inserted the number of rows that came new, ret.calls the
\* storage calls, ret.between the number of TicksBetween before the call.
SaveTickDataWithin(datas, most) ==
    /\ Count(save_tick_data(db_tick_data, datas)) <= most
    /\ db_tick_data' = save_tick_data(db_tick_data, datas)
    /\ ret' = [op |-> "save_tick_data", outcome |-> "ok", value |-> <<>>,
               n |-> Len(datas),
               inserted |-> Count(db_tick_data') - Count(db_tick_data),
               calls |-> save_tick_data_calls(datas),
               between |-> Count(TicksBetween(db_tick_data, datas))]
    /\ UNCHANGED <<db, saving, mongo>>

SaveTickData(datas) == SaveTickDataWithin(datas, MaxTicks)

\* ------------------------------------------------------ load_tick_data
\* no order_by: the rows come in whatever order the server hands them out
load_tick_data(rows, symbol, exchange, start, end) ==
    LET s == Restrict(rows, { row \in DOMAIN rows :
                                /\ row.symbol = symbol
                                /\ row.exchange = ExchangeValue(exchange)
                                /\ row.datetime >= start
                                /\ row.datetime <= end })
    IN { Returned([k \in DOMAIN res |-> to_tick(res[k])]) : res \in Orderings(s) }

LoadTickData(symbol, exchange, start, end) ==
    /\ \E r \in load_tick_data(db_tick_data, symbol, exchange, start, end) :
          ret' = Call("load_tick_data", r)
    /\ UNCHANGED <<db, db_tick_data, saving, mongo>>

\* ------------------------------------------------- get_newest_tick_data
get_newest_tick_data(rows, symbol, exchange) ==
    LET s == Restrict(rows, { row \in DOMAIN rows :
                                /\ row.symbol = symbol
                                /\ row.exchange = ExchangeValue(exchange) })
    IN IF DOMAIN s = {}
       THEN { Returned(<<>>) }
       ELSE { Returned(<<to_tick(row)>>) : row \in FirstDesc(s) }

GetNewestTickData(symbol, exchange) ==
    /\ \E r \in get_newest_tick_data(db_tick_data, symbol, exchange) :
          ret' = Call("get_newest_tick_data", r)
    /\ UNCHANGED <<db, db_tick_data, saving, mongo>>

\* --------------------------------------------------------- specifications
\* The operations on the bar store.
Next ==
    \/ \E se \in Instruments, n \in 0..MaxBatch :
         \E f \in BarBatchShapes(n) : SaveBarData(BarBatch(se[1], se[2], n, f))
    \/ \E se \in Instruments, i \in Intervals, start, end \in Times :
         LoadBarData(se[1], se[2], i, start, end)
    \/ \E se \in Instruments, i \in Intervals : GetNewestBarData(se[1], se[2], i)
    \/ \E se \in Instruments, i \in Intervals : GetOldestBarData(se[1], se[2], i)
    \/ \E se \in Instruments, i \in Intervals : DeleteBarData(se[1], se[2], i)
    \/ GetBarDataStatistics
    \/ \E s \in Symbols : Clean(s)

Spec == Init /\ [][Next]_vars

\* The operations on the tick store.
NextTick ==
    \/ \E se \in Instruments, n \in 0..MaxBatch :
         \E f \in TickBatchShapes(n) : SaveTickData(TickBatch(se[1], se[2], n, f))
    \/ \E se \in Instruments, start, end \in Times :
         LoadTickData(se[1], se[2], start, end)
    \/ \E se \in Instruments : GetNewestTickData(se[1], se[2])
    \/ \E s \in Symbols : Clean(s)

SpecTick == Init /\ [][NextTick]_vars

\* ------------------------------------------- import, init, use, on_exit
\* the state after the import of the module: no client yet (lines 14, 15),
\* on_exit registered (line 23); the server holds what it holds, here nothing
InitImport ==
    /\ db = <<>>
    /\ db_tick_data = EmptyBag
    /\ ret = Call("import", Returned(<<>>))
    /\ saving = <<>>
    /\ mongo = "None"

\* init(driver, settings): makes the client and returns the manager
InitManager ==
    /\ mongo' = "MongoClient"
    /\ ret' = Call("init", Returned(<<>>))
    /\ UNCHANGED <<db, db_tick_data, saving>>

\* on_exit(): the client it leaves
on_exit(m) == IF m # "None" THEN "closed" ELSE m

OnExit ==
    /\ mongo' = on_exit(mongo)
    /\ ret' = Call("on_exit", Returned(<<>>))
    /\ UNCHANGED <<db, db_tick_data, saving>>

\* A storage call through a MongoClient that was closed: the file does not
\* look at the client before it uses db, so the outcome is the library's.
\* pymongo 3 opens the client again and the call goes through as on an open
\* client; later versions raise InvalidOperation.  This is the second way.
RaiseOnClosed(op) ==
    /\ mongo = "closed"
    /\ ret' = Call(op, Raised("InvalidOperation"))
    /\ UNCHANGED <<db, db_tick_data, saving, mongo>>

\* the one instrument of the callers of the specifications below
Instrument == <<"ABC", "Exchange.SSE">>

\* The manager that init returned is used, before and after on_exit.  The
\* tick operations go through mongoengine's own connection, which on_exit
\* does not close.
NextLife ==
    \/ InitManager
    \/ OnExit
    \/ /\ mongo # "None"
       /\ \E n \in 0..MaxBatch : \E f \in BarBatchShapes(n) :
             SaveBarData(BarBatch(Instrument[1], Instrument[2], n, f))
    \/ /\ mongo # "None"
       /\ \E n \in 0..MaxBatch : \E f \in TickBatchShapes(n) :
             SaveTickData(TickBatch(Instrument[1], Instrument[2], n, f))
    \/ /\ mongo # "None"
       /\ \E i \in Intervals : GetOldestBarData(Instrument[1], Instrument[2], i)
    \/ \E op \in {"save_bar_data", "get_oldest_bar_data"} : RaiseOnClosed(op)

SpecLife == InitImport /\ [][NextLife]_vars

\* -------------------------------------------------- the mappers alone
\* a caller holds a bar or a tick
InitMapper ==
    /\ db = <<>>
    /\ db_tick_data = EmptyBag
    /\ saving = <<>>
    /\ mongo = "MongoClient"
    /\ \/ \E se \in Instruments, i \in Intervals, t \in Times, v \in Versions :
            ret = [op |-> "BarData", outcome |-> "ok",
                   value |-> MkBar(se[1], se[2], i, t, v)]
       \/ \E se \in Instruments, t \in Times, v \in Versions :
            ret = [op |-> "TickData", outcome |-> "ok",
                   value |-> MkTick(se[1], se[2], t, v)]

\* from_bar with the ex and s of lines 340 and 343; ret keeps the bar it was
\* given
FromBar ==
    /\ ret.op = "BarData"
    /\ LET ex == Exchange_lower(ret.value.exchange)
           s == Lower(ret.value.symbol)
       IN ret' = [op |-> "from_bar", outcome |-> "ok",
                  value |-> from_bar(ex, s, ret.value),
                  ex |-> ex, s |-> s, input |-> ret.value]
    /\ UNCHANGED <<db, db_tick_data, saving, mongo>>

\* to_bar of that document with the same ex and s (lines 312 and 315)
ToBar ==
    /\ ret.op = "from_bar"
    /\ ret' = [op |-> "to_bar", outcome |-> "ok",
               value |-> to_bar(ret.ex, ret.s, ret.value),
               input |-> ret.input]
    /\ UNCHANGED <<db, db_tick_data, saving, mongo>>

FromTick ==
    /\ ret.op = "TickData"
    /\ ret' = [op |-> "from_tick", outcome |-> "ok",
               value |-> from_tick(ret.value), input |-> ret.value]
    /\ UNCHANGED <<db, db_tick_data, saving, mongo>>

ToTick ==
    /\ ret.op = "from_tick"
    /\ ret' = [op |-> "to_tick", outcome |-> "ok",
               value |-> to_tick(ret.value), input |-> ret.input]
    /\ UNCHANGED <<db, db_tick_data, saving, mongo>>

NextMapper == FromBar \/ ToBar \/ FromTick \/ ToTick

SpecMapper == InitMapper /\ [][NextMapper]_vars

\* ------------------------------------------- the ticks of one instrument
NextTickOne ==
    \/ \E n \in 0..MaxBatch : \E f \in TickBatchShapes(n) :
         SaveTickDataWithin(TickBatch(Instrument[1], Instrument[2], n, f),
                            MaxTicksOne)
    \/ \E start, end \in Times :
         LoadTickData(Instrument[1], Instrument[2], start, end)
    \/ GetNewestTickData(Instrument[1], Instrument[2])

SpecTickOne == Init /\ [][NextTickOne]_vars

\* ------------------------------------- batches of more than one instrument
\* the instruments of the records of such a batch: they differ in symbol and
\* in exchange
MixedInstruments == { <<"ABC", "Exchange.SSE">>, <<"XYZ", "Exchange.SZSE">> }

\* A batch of n bars, each with its own instrument, interval and datetime,
\* given by g.
MixedBarBatch(n, g) ==
    [k \in 1..n |-> MkBar(g[k][1][1], g[k][1][2], g[k][2], g[k][3], 1)]

MixedBarBatchShapes(n) == [1..n -> MixedInstruments \X Intervals \X Times]

NextMixed ==
    \/ \E n \in 0..MaxBatch : \E g \in MixedBarBatchShapes(n) :
         SaveBarData(MixedBarBatch(n, g))
    \/ \E se \in MixedInstruments, i \in Intervals :
         GetOldestBarData(se[1], se[2], i)
    \/ \E se \in MixedInstruments, i \in Intervals :
         DeleteBarData(se[1], se[2], i)

SpecMixed == Init /\ [][NextMixed]_vars

\* ----------------------------------- a save and a reader at the same time
\* save_bar_data of a non-empty batch up to and with line 342: the
\* delete_many is done, the insert_many is not.  saving keeps the batch and,
\* for the record, the deleted_count.
SaveBarDelete(data_list) ==
    /\ saving = <<>>
    /\ Len(data_list) > 0
    /\ TotalRows(save_bar_data(db, data_list)) <= MaxRows
    /\ db' = save_bar_delete(db, data_list)
    /\ saving' = << [data_list |-> data_list,
                     deleted |-> TotalRows(db) - TotalRows(db')] >>
    /\ UNCHANGED <<db_tick_data, ret, mongo>>

\* lines 343 and 344 of that call, and its return
SaveBarInsert ==
    /\ saving # <<>>
    /\ db' = save_bar_insert(db, saving[1].data_list)
    /\ saving' = <<>>
    /\ ret' = [op |-> "save_bar_data", outcome |-> "ok", value |-> <<>>,
               deleted |-> saving[1].deleted,
               calls |-> save_bar_data_calls(saving[1].data_list),
               mixed |-> Mixed(saving[1].data_list)]
    /\ UNCHANGED <<db_tick_data, mongo>>

\* One thread saves, another reads; nothing orders the reads and the two
\* storage calls of a save.
NextConc ==
    \/ \E n \in 1..MaxBatch : \E f \in BarBatchShapes(n) :
         SaveBarDelete(BarBatch(Instrument[1], Instrument[2], n, f))
    \/ SaveBarInsert
    \/ \E i \in Intervals, start, end \in Times :
         LoadBarData(Instrument[1], Instrument[2], i, start, end)
    \/ \E i \in Intervals : GetOldestBarData(Instrument[1], Instrument[2], i)
    \/ \E i \in Intervals : GetNewestBarData(Instrument[1], Instrument[2], i)

SpecConc == Init /\ [][NextConc]_vars

\* ------------------------------------------------------------------ claims
\* callers' batches of n >= 1 bars whose records agree on the interval
OneInterval(f) == \A k \in DOMAIN f : f[k][1] = f[1][1]

\* ... and carry pairwise different datetimes
DistinctTimes(f) == \A j, k \in DOMAIN f : j # k => f[j][2] # f[k][2]

\* no two rows of a bar partition share (symbol, exchange, interval, datetime)
UniqueBars(d) ==
    \A name \in DOMAIN d :
        \A o1, o2 \in DOMAIN d[name] :
            /\ d[name][o1] = 1
            /\ (/\ o1.symbol = o2.symbol /\ o1.ex = o2.ex
                /\ o1.period = o2.period /\ o1.datetime = o2.datetime) => o1 = o2

\* C1: a save_bar_data of a batch of one symbol, exchange and interval with
\* distinct datetimes never leaves two rows with the same (symbol, exchange,
\* interval, datetime) in a partition that had no such two rows before.
C1_SaveKeepsBarsUnique ==
    [][ \A se \in Instruments, n \in 1..MaxBatch :
          \A f \in BarBatchShapes(n) :
            (/\ OneInterval(f) /\ DistinctTimes(f)
             /\ UniqueBars(db)
             /\ SaveBarData(BarBatch(se[1], se[2], n, f)))
            => UniqueBars(db') ]_vars

\* the rows that load_bar_data is to return: those of the partition of
\* (exchange, symbol) with the interval and start <= datetime <= end
C2_Wanted(d, symbol, exchange, interval, start, end) ==
    LET col == Col(d, <<"kline", Lower(ExchangeValue(exchange)), Lower(symbol)>>)
    IN [o \in { x \in DOMAIN col : /\ x.period = IntervalValue(interval)
                                    /\ start <= x.datetime
                                    /\ x.datetime <= end }
          |-> col[o]]

\* C2: load_bar_data returns exactly the rows of the partition with the given
\* interval and start <= datetime <= end, in ascending datetime order.
C2_LoadBarRange ==
    [][ \A se \in Instruments, i \in Intervals, start, end \in Times :
          LoadBarData(se[1], se[2], i, start, end)
          => /\ ret'.outcome = "ok"
             /\ Len(ret'.value) = Count(C2_Wanted(db, se[1], se[2], i, start, end))
             /\ \A k \in 1..(Len(ret'.value) - 1) :
                   ret'.value[k].datetime <= ret'.value[k + 1].datetime
             /\ \A o \in DOMAIN C2_Wanted(db, se[1], se[2], i, start, end) :
                   Cardinality({ k \in DOMAIN ret'.value :
                       /\ ret'.value[k].datetime = o.datetime
                       /\ ret'.value[k].interval = i
                       /\ ret'.value[k].close_price = o.close })
                     = C2_Wanted(db, se[1], se[2], i, start, end)[o] ]_vars

\* the row that stands for bar b in the partition of (ex, s)
C3_RowOf(b, ex, s) ==
    [datetime |-> b.datetime, open |-> b.open_price, close |-> b.close_price,
     high |-> b.high_price, low |-> b.low_price, volume |-> b.volume,
     open_interest |-> b.open_interest, period |-> IntervalValue(b.interval),
     symbol |-> s, ex |-> ex]

\* C3: from every reachable database, save_bar_data of a non-empty batch of
\* interval I with minimum datetime Ta and maximum datetime Tb leaves in the
\* batch's partition the previous rows except those of interval I with
\* Ta < datetime < Tb, plus one row per bar of the batch, and leaves every
\* other partition as it was.
C3_ReplaceRange ==
    \A se \in Instruments, n \in 1..MaxBatch :
      \A f \in BarBatchShapes(n) :
        OneInterval(f) =>
          LET batch == BarBatch(se[1], se[2], n, f)
              ex == Lower(ExchangeValue(se[2]))
              s == Lower(se[1])
              name == <<"kline", ex, s>>
              I == IntervalValue(f[1][1])
              Ta == MinTime(batch)
              Tb == MaxTimeOf(batch)
              old == Col(db, name)
              after == save_bar_data(db, batch)
              Gone(o) == o.period = I /\ Ta < o.datetime /\ o.datetime < Tb
              Added(o) == Cardinality({k \in 1..n : C3_RowOf(batch[k], ex, s) = o})
          IN /\ DOMAIN after = DOMAIN db \cup {name}
             /\ \A m \in DOMAIN db \ {name} : after[m] = db[m]
             /\ \A k \in 1..n : C3_RowOf(batch[k], ex, s) \in DOMAIN after[name]
             /\ \A o \in DOMAIN old \cup DOMAIN after[name] :
                   CopiesIn(o, after[name])
                     = (IF Gone(o) THEN 0 ELSE CopiesIn(o, old)) + Added(o)
             /\ \A o \in DOMAIN old :
                   o.period # I => CopiesIn(o, after[name]) = CopiesIn(o, old)

\* a save has just replaced the one-minute row at 2 by rows at 1 and 3 while
\* the one-hour row at 2 of the same partition stayed
C3_Witness ==
    /\ ret.op = "save_bar_data"
    /\ ret.deleted = 1
    /\ <<"kline", "sse", "abc">> \in DOMAIN db
    /\ { <<o.period, o.datetime>> : o \in DOMAIN db[<<"kline", "sse", "abc">>] }
         = { <<"1m", 1>>, <<"1m", 3>>, <<"1h", 2>> }

\* the rows of database d that are stored for (ex, s), whatever collection
\* holds them: collection and row -> number of copies
RowsFor(d, ex, s) ==
    [x \in { <<name, o>> \in UNION { {name} \X DOMAIN d[name] : name \in DOMAIN d } :
                o.ex = ex /\ o.symbol = s }
       |-> d[x[1]][x[2]]]

\* bar b is what to_bar makes of some row stored for (ex, s)
C4_FromRowsFor(d, ex, s, b) ==
    \E x \in DOMAIN RowsFor(d, ex, s) :
        /\ b.datetime = x[2].datetime
        /\ IntervalValue(b.interval) = x[2].period
        /\ b.close_price = x[2].close
        /\ b.open_price = x[2].open

\* C4: for symbols A and B that differ after lower-casing, on one exchange, a
\* save_bar_data for A leaves the rows stored for B as they were, and every
\* bar that load_bar_data, get_newest_bar_data or get_oldest_bar_data returns
\* for B comes from a row stored for B.
C4_PartitionIsolation ==
    \A sa, sb \in Instruments :
      (sa[2] = sb[2] /\ Lower(sa[1]) # Lower(sb[1])) =>
        LET ex == Lower(ExchangeValue(sb[2]))
            B == Lower(sb[1])
        IN /\ \A n \in 1..MaxBatch : \A f \in BarBatchShapes(n) :
                RowsFor(save_bar_data(db, BarBatch(sa[1], sa[2], n, f)), ex, B)
                  = RowsFor(db, ex, B)
           /\ \A i \in Intervals :
                \A r \in get_newest_bar_data(db, sb[1], sb[2], i)
                           \cup get_oldest_bar_data(db, sb[1], sb[2], i) :
                    r.outcome = "ok" => C4_FromRowsFor(db, ex, B, r.value[1])
           /\ \A i \in Intervals, start, end \in Times :
                \A r \in load_bar_data(db, sb[1], sb[2], i, start, end) :
                    r.outcome = "ok" =>
                        \A k \in DOMAIN r.value :
                            C4_FromRowsFor(db, ex, B, r.value[k])

\* the newest bar of XYZ was asked for and is the one at 1, while ABC on the
\* same exchange holds a bar at 3
C4_Witness ==
    /\ ret.op = "get_newest_bar_data"
    /\ ret.outcome = "ok"
    /\ ret.value[1].symbol = "xyz"
    /\ ret.value[1].datetime = 1
    /\ <<"kline", "sse", "abc">> \in DOMAIN db
    /\ \E o \in DOMAIN db[<<"kline", "sse", "abc">>] :
          o.datetime = 3 /\ o.period = IntervalValue(ret.value[1].interval)

\* the rows of interval i in the partition of (symbol, exchange)
C5_Rows(d, symbol, exchange, i) ==
    { o \in DOMAIN Col(d, <<"kline", Lower(ExchangeValue(exchange)), Lower(symbol)>>) :
        o.period = IntervalValue(i) }

\* bar b carries the numbers of row o
C5_Same(b, o) ==
    /\ b.datetime = o.datetime
    /\ b.open_price = o.open /\ b.high_price = o.high
    /\ b.low_price = o.low /\ b.close_price = o.close
    /\ b.volume = o.volume /\ b.open_interest = o.open_interest

\* C5: when the partition of (symbol, exchange) holds rows of the interval,
\* get_oldest_bar_data returns a stored bar of that interval with the smallest
\* datetime and get_newest_bar_data one with the largest.
C5_OldestNewest ==
    \A se \in Instruments, i \in Intervals :
      LET rows == C5_Rows(db, se[1], se[2], i)
      IN rows # {} =>
          /\ \A r \in get_oldest_bar_data(db, se[1], se[2], i) :
                /\ r.outcome = "ok"
                /\ Len(r.value) = 1
                /\ r.value[1].interval = i
                /\ \A o \in rows : r.value[1].datetime <= o.datetime
                /\ \E o \in rows : C5_Same(r.value[1], o)
          /\ \A r \in get_newest_bar_data(db, se[1], se[2], i) :
                /\ r.outcome = "ok"
                /\ Len(r.value) = 1
                /\ r.value[1].interval = i
                /\ \A o \in rows : r.value[1].datetime >= o.datetime
                /\ \E o \in rows : C5_Same(r.value[1], o)

\* bars at 1, 2 and 3 are stored for one interval and get_newest_bar_data has
\* returned the one at 3
C5_Witness ==
    /\ ret.op = "get_newest_bar_data"
    /\ ret.outcome = "ok"
    /\ ret.value[1].datetime = 3
    /\ ret.value[1].symbol = "abc"
    /\ ret.value[1].exchange = "Exchange.SSE"
    /\ { o.datetime : o \in C5_Rows(db, "abc", "Exchange.SSE", ret.value[1].interval) }
         = {1, 2, 3}

\* C6: get_newest_bar_data and get_oldest_bar_data return None and raise
\* nothing when the partition holds no row of the interval, and
\* get_newest_tick_data returns None when no tick is stored for the symbol
\* and exchange.
C6_AbsentIsNone ==
    [][ /\ \A se \in Instruments, i \in Intervals :
             (/\ C5_Rows(db, se[1], se[2], i) = {}
              /\ \/ GetNewestBarData(se[1], se[2], i)
                 \/ GetOldestBarData(se[1], se[2], i))
             => (ret'.outcome = "ok" /\ ret'.value = <<>>)
        /\ \A se \in Instruments :
             (/\ \A row \in DOMAIN db_tick_data :
                    ~TickKeyMatches(row, se[1], ExchangeValue(se[2]), row.datetime)
              /\ GetNewestTickData(se[1], se[2]))
             => (ret'.outcome = "ok" /\ ret'.value = <<>>) ]_vars

\* C7: load_bar_data and load_tick_data return an empty sequence and raise
\* nothing when no row matches, and leave the store as it was.
C7_EmptyLoad ==
    [][ /\ \A se \in Instruments, i \in Intervals, start, end \in Times :
             (/\ DOMAIN C2_Wanted(db, se[1], se[2], i, start, end) = {}
              /\ LoadBarData(se[1], se[2], i, start, end))
             => (ret'.outcome = "ok" /\ ret'.value = <<>> /\ db' = db)
        /\ \A se \in Instruments, start, end \in Times :
             (/\ \A row \in DOMAIN db_tick_data :
                    ~(/\ TickKeyMatches(row, se[1], ExchangeValue(se[2]), row.datetime)
                      /\ start <= row.datetime /\ row.datetime <= end)
              /\ LoadTickData(se[1], se[2], start, end))
             => (/\ ret'.outcome = "ok" /\ ret'.value = <<>>
                 /\ db_tick_data' = db_tick_data) ]_vars

\* C8: a load_bar_data that directly follows delete_bar_data of the same
\* symbol, exchange and interval returns an empty sequence.
C8_DeleteThenLoad ==
    [][ \A start, end \in Times :
          (/\ ret.op = "delete_bar_data"
           /\ LoadBarData(ret.symbol, ret.exchange, ret.interval, start, end))
          => (ret'.outcome = "ok" /\ ret'.value = <<>>) ]_vars

\* at most one tick row per (symbol, exchange, datetime)
UniqueTicks(rows) ==
    \A r1, r2 \in DOMAIN rows :
        /\ rows[r1] = 1
        /\ TickKeyMatches(r1, r2.symbol, r2.exchange, r2.datetime) => r1 = r2

\* row holds every field of tick d that is stored
C9_Holds(row, d) ==
    \A fld \in DOMAIN row :
        row[fld] = IF fld = "exchange" THEN ExchangeValue(d.exchange) ELSE d[fld]

\* C9: the tick store never holds two rows with one (symbol, exchange,
\* datetime); after save_tick_data of a batch the one row of each key of the
\* batch holds the fields of the last tick of the batch with that key; and
\* saving the batch a second time changes nothing.
C9_TickUpsert ==
    /\ UniqueTicks(db_tick_data)
    /\ \A se \in Instruments, n \in 0..MaxBatch :
         \A f \in TickBatchShapes(n) :
            LET datas == TickBatch(se[1], se[2], n, f)
                once == save_tick_data(db_tick_data, datas)
            IN /\ UniqueTicks(once)
               /\ save_tick_data(once, datas) = once
               /\ \A k \in 1..n :
                    (\A j \in (k + 1)..n : datas[j].datetime # datas[k].datetime)
                    => \E row \in DOMAIN once :
                          /\ TickKeyMatches(row, se[1], ExchangeValue(se[2]),
                                            datas[k].datetime)
                          /\ C9_Holds(row, datas[k])
               /\ \A row \in DOMAIN db_tick_data :
                    (\A k \in 1..n :
                        ~TickKeyMatches(row, se[1], ExchangeValue(se[2]),
                                        datas[k].datetime))
                    => CopiesIn(row, once) = CopiesIn(row, db_tick_data)

\* one tick has just been saved onto a key that was stored already, and the
\* row now holds its fields
C9_Witness ==
    /\ ret.op = "save_tick_data"
    /\ ret.n = 1
    /\ ret.inserted = 0
    /\ \E row \in DOMAIN db_tick_data :
          C9_Holds(row, MkTick("ABC", "Exchange.SSE", 1, 2))

\* C10: after clean(symbol) a read for that symbol, in any spelling and on
\* any exchange, finds no bar and no tick, and clean leaves the partitions of
\* every other symbol as they were.
C10_CleanRemovesAll ==
    [][ /\ \A se \in Instruments :
            (ret.op = "clean" /\ Lower(se[1]) = Lower(ret.symbol)) =>
              /\ GetNewestTickData(se[1], se[2]) => ret'.value = <<>>
              /\ \A start, end \in Times :
                   LoadTickData(se[1], se[2], start, end) => ret'.value = <<>>
              /\ \A i \in Intervals :
                   GetNewestBarData(se[1], se[2], i) => ret'.value = <<>>
              /\ \A i \in Intervals, start, end \in Times :
                   LoadBarData(se[1], se[2], i, start, end) => ret'.value = <<>>
        /\ \A symbol \in Symbols :
            Clean(symbol) =>
              /\ \A name \in DOMAIN db :
                    name[3] # Lower(symbol) =>
                        name \in DOMAIN db' /\ db'[name] = db[name]
              /\ \A row \in DOMAIN db_tick_data :
                    Lower(row.symbol) # Lower(symbol) =>
                        CopiesIn(row, db_tick_data') = CopiesIn(row, db_tick_data)
      ]_vars

\* the entries that the statistics are to hold: one per bar partition and
\* interval stored in it, with the number of rows of that interval there
C11_Wanted(d) ==
    { [symbol |-> n[3], exchange |-> Upper(n[2]), interval |-> p,
       count |-> Count(Restrict(d[n], {o \in DOMAIN d[n] : o.period = p}))] :
        <<n, p>> \in UNION { {m} \X {o.period : o \in DOMAIN d[m]} :
                               m \in {i \in DOMAIN d : i[1] = "kline"} } }

\* C11: get_bar_data_statistics returns, for every bar partition and every
\* interval present in it, exactly one entry whose count is the number of
\* rows of that interval in that partition, and no other entry.
C11_Statistics ==
    [][ GetBarDataStatistics =>
          /\ ret'.outcome = "ok"
          /\ Len(ret'.value) = Cardinality(C11_Wanted(db))
          /\ {ret'.value[k] : k \in DOMAIN ret'.value} = C11_Wanted(db) ]_vars

\* C12: save_bar_data and save_tick_data of an empty batch issue no storage
\* call, create no partition, leave every stored row as it was and return
\* without an error.
C12_EmptyBatchNoOp ==
    [][ (SaveBarData(<<>>) \/ SaveTickData(<<>>)) =>
          /\ ret'.outcome = "ok"
          /\ ret'.calls = <<>>
          /\ DOMAIN db' = DOMAIN db
          /\ db' = db
          /\ db_tick_data' = db_tick_data ]_vars

\* an empty batch of bars has just been saved through an open client while
\* bars and ticks are stored
C12_Witness ==
    /\ mongo = "MongoClient"
    /\ ret.op = "save_bar_data"
    /\ ret.outcome = "ok"
    /\ ret.calls = <<>>
    /\ db # <<>>
    /\ db_tick_data # EmptyBag

\* C17: on_exit without a client does nothing and raises nothing, a second
\* on_exit has no further effect, and once the client is closed no call of
\* the manager completes successfully.
C17_Lifecycle ==
    [][ /\ (OnExit /\ mongo \in {"None", "closed"}) =>
              /\ ret'.outcome = "ok"
              /\ UNCHANGED <<db, db_tick_data, saving, mongo>>
        /\ (mongo = "closed" /\ ret'.op \notin {"init", "on_exit"}) =>
              ret'.outcome # "ok" ]_vars

\* C13: the delete and the insert of save_bar_data are two storage steps, and
\* a load_bar_data that runs between them, after the delete has removed rows,
\* returns the partition as it is then: the rows of its range that are left,
\* without the deleted rows and without the batch.
C13_LoadSeesGap ==
    [][ \A i \in Intervals, start, end \in Times :
          (/\ saving # <<>>
           /\ saving[1].deleted > 0
           /\ LoadBarData(Instrument[1], Instrument[2], i, start, end))
          => /\ ret'.outcome = "ok"
             /\ Len(ret'.value)
                  = Count(C2_Wanted(db, Instrument[1], Instrument[2], i, start, end))
             /\ \A k \in DOMAIN ret'.value :
                   \E o \in DOMAIN C2_Wanted(db, Instrument[1], Instrument[2],
                                              i, start, end) :
                       C5_Same(ret'.value[k], o) ]_vars

\* what load_bar_data, get_newest_bar_data and get_oldest_bar_data can return
\* for one interval of one partition of database d
C14_Results(d, symbol, exchange, i) ==
    get_newest_bar_data(d, symbol, exchange, i)
      \cup get_oldest_bar_data(d, symbol, exchange, i)
      \cup UNION { load_bar_data(d, symbol, exchange, i, start, end) :
                     start \in Times, end \in Times }

\* C14: every bar that load_bar_data, get_newest_bar_data or
\* get_oldest_bar_data returns carries the exchange that the caller passed and
\* the bar was saved with, and the symbol the bar was saved with.  (Here:
\* after a save into a partition that held no row of the batch's interval,
\* so that every row of that interval is one of the batch.)
C14_NoLeak ==
    [][ \A se \in Instruments, n \in 1..MaxBatch :
          \A f \in BarBatchShapes(n) :
            (/\ C5_Rows(db, se[1], se[2], f[1][1]) = {}
             /\ SaveBarData(BarBatch(se[1], se[2], n, f)))
            => \A r \in C14_Results(db', se[1], se[2], f[1][1]) :
                  r.outcome = "ok" =>
                    \A k \in DOMAIN r.value :
                        /\ r.value[k].exchange = se[2]
                        /\ r.value[k].symbol = se[1] ]_vars

\* C15: to_bar(ex, s, from_bar(ex, s, b)), with the ex and s of the manager,
\* equals b in symbol, exchange, interval, datetime, volume, open_interest
\* and the four prices.
C15_BarRoundTrip ==
    [][ ToBar =>
          \A fld \in { "symbol", "exchange", "interval", "datetime", "volume",
                        "open_interest", "open_price", "high_price",
                        "low_price", "close_price" } :
              ret'.value[fld] = ret'.input[fld] ]_vars

\* C16: from_tick then to_tick gives back the prices and volumes of level 1,
\* and those of the levels 2 to 5 when the tick's bid_price_2 is not zero;
\* when it is zero the levels 2 to 5 come back as the default 0, whatever
\* they held.
C16_DepthGuard ==
    [][ ToTick =>
          /\ \A fld \in {"bid_price_1", "ask_price_1", "bid_volume_1", "ask_volume_1"} :
                ret'.value[fld] = ret'.input[fld]
          /\ \A fld \in DepthFields :
                ret'.value[fld] = IF ret'.input.bid_price_2 # 0
                                  THEN ret'.input[fld] ELSE 0 ]_vars

\* a tick without level 2 whose level 3 held a price has made the round trip
C16_Witness ==
    /\ ret.op = "to_tick"
    /\ ret.input.bid_price_2 = 0
    /\ ret.input.bid_price_3 # 0
    /\ ret.value.bid_price_3 = 0
    /\ ret.value.bid_price_1 = ret.input.bid_price_1

\* the row that holds tick d: its fields but gateway_name and vt_symbol, the
\* exchange as its value
C18_StoredTick(d) ==
    [fld \in DOMAIN d \ {"gateway_name", "vt_symbol"} |->
        IF fld = "exchange" THEN ExchangeValue(d.exchange) ELSE d[fld]]

\* the rows that a delete of the range and an insert of the batch leave
C18_DeleteThenInsert(rows, datas) ==
    LET kept == { row \in DOMAIN rows :
                    ~(/\ TickKeyMatches(row, datas[1].symbol,
                                        ExchangeValue(datas[1].exchange),
                                        row.datetime)
                      /\ MinTime(datas) < row.datetime
                      /\ row.datetime < MaxTimeOf(datas)) }
    IN InsertMany(Restrict(rows, kept),
                  [k \in DOMAIN datas |-> C18_StoredTick(datas[k])])

\* the ticks of the batch have pairwise different datetimes and none of them
\* is stored yet, so that an insert of the batch meets no stored key
C18_NewKeys(rows, datas) ==
    /\ \A j, k \in DOMAIN datas : j # k => datas[j].datetime # datas[k].datetime
    /\ \A k \in DOMAIN datas : \A row \in DOMAIN rows :
          ~TickKeyMatches(row, datas[k].symbol, ExchangeValue(datas[k].exchange),
                          datas[k].datetime)

\* C18 (as claimed): save_tick_data of a non-empty batch with first datetime
\* Ta and last datetime Tb removes every stored tick of the batch's symbol
\* and exchange with Ta < datetime < Tb, also one whose datetime is not in
\* the batch, and inserts the batch: the store is that of a delete of the
\* range followed by an insert of the batch.  (Stated for the batches whose
\* keys are new, where the insert of the reference meets no stored key.)
C18_TickReplaceRange ==
    [][ \A n \in 1..MaxBatch : \A f \in TickBatchShapes(n) :
          (/\ C18_NewKeys(db_tick_data, TickBatch(Instrument[1], Instrument[2], n, f))
           /\ SaveTickDataWithin(TickBatch(Instrument[1], Instrument[2], n, f),
                                 MaxTicksOne))
          => /\ TicksBetween(db_tick_data', TickBatch(Instrument[1], Instrument[2], n, f))
                  = EmptyBag
             /\ db_tick_data'
                  = C18_DeleteThenInsert(db_tick_data,
                        TickBatch(Instrument[1], Instrument[2], n, f)) ]_vars

\* the rows that an upsert of every tick of the batch by its key leaves: the
\* rows of other keys as they were, and per key of the batch one row with
\* the fields of the last tick of the batch with that key
C18_UpsertByKey(rows, datas) ==
    LET other == { row \in DOMAIN rows :
                     \A k \in DOMAIN datas :
                        ~TickKeyMatches(row, datas[k].symbol,
                                        ExchangeValue(datas[k].exchange),
                                        datas[k].datetime) }
        last == { k \in DOMAIN datas :
                    \A j \in DOMAIN datas :
                        j > k => datas[j].datetime # datas[k].datetime }
    IN Restrict(rows, other) (+) SetToBag({ C18_StoredTick(datas[k]) : k \in last })

\* C18 (amended): save_tick_data upserts every tick of the batch by (symbol,
\* exchange, datetime) and deletes nothing: from every reachable store, the
\* store after it is the one before with the rows of the batch's keys
\* replaced, and the stored ticks with Ta < datetime < Tb whose datetime is
\* not in the batch are all still there.
C18_TickUpsertKeepsRange ==
    \A n \in 1..MaxBatch : \A f \in TickBatchShapes(n) :
        LET datas == TickBatch(Instrument[1], Instrument[2], n, f)
            after == save_tick_data(db_tick_data, datas)
        IN /\ after = C18_UpsertByKey(db_tick_data, datas)
           /\ TicksBetween(after, datas) = TicksBetween(db_tick_data, datas)

\* a batch has just been saved around a stored tick, and three ticks are
\* stored
C18_Witness ==
    /\ ret.op = "save_tick_data"
    /\ ret.between = 1
    /\ ret.inserted = 2
    /\ Count(db_tick_data) = 3

\* the rows of interval i in the partition of (symbol, exchange), with their
\* numbers of copies
C19_RowsOf(d, symbol, exchange, i) ==
    LET col == Col(d, <<"kline", Lower(ExchangeValue(exchange)), Lower(symbol)>>)
    IN Restrict(col, {o \in DOMAIN col : o.period = IntervalValue(i)})

\* C19: delete_bar_data(symbol, exchange, interval) removes the rows of that
\* symbol, exchange and interval and returns their number; the rows of the
\* same symbol and exchange under another interval stay stored, to be
\* returned by a later load_bar_data, and are not counted.
C19_DeleteOneInterval ==
    [][ \A se \in Instruments, i \in Intervals :
          DeleteBarData(se[1], se[2], i) =>
            /\ ret'.outcome = "ok"
            /\ ret'.value = Count(C19_RowsOf(db, se[1], se[2], i))
            /\ C19_RowsOf(db', se[1], se[2], i) = EmptyBag
            /\ \A j \in Intervals \ {i} :
                  C19_RowsOf(db', se[1], se[2], j) = C19_RowsOf(db, se[1], se[2], j)
      ]_vars

\* every row of database d carries the ex and the symbol of the name of its
\* collection
C20_Labelled(d) ==
    \A name \in DOMAIN d :
        \A o \in DOMAIN d[name] : name = <<"kline", o.ex, o.symbol>>

\* C20: every stored row of kline:<ex>:<s> has ex = <ex> and symbol = <s>;
\* a save_bar_data writes every record of its batch, whatever symbol and
\* exchange the record carries, into the partition of the first record and
\* with the first record's ex and s, each with its own interval; the rows of
\* that partition under another interval than the first record's are not
\* deleted, and no other partition is touched.
C20_PartitionLabels ==
    /\ C20_Labelled(db)
    /\ \A n \in 1..MaxBatch : \A g \in MixedBarBatchShapes(n) :
          LET batch == MixedBarBatch(n, g)
              ex == Lower(ExchangeValue(batch[1].exchange))
              s == Lower(batch[1].symbol)
              name == <<"kline", ex, s>>
              after == save_bar_data(db, batch)
          IN /\ C20_Labelled(after)
             /\ DOMAIN after = DOMAIN db \cup {name}
             /\ \A m \in DOMAIN db \ {name} : after[m] = db[m]
             /\ \A k \in 1..n : C3_RowOf(batch[k], ex, s) \in DOMAIN after[name]
             /\ Count(after[name]) >= n
             /\ \A o \in DOMAIN Col(db, name) :
                   o.period # IntervalValue(batch[1].interval) =>
                       CopiesIn(o, after[name]) >= CopiesIn(o, db[name])

\* a batch of a bar of ABC on SSE followed by a bar of XYZ on SZSE has just
\* been saved, and both rows are in kline:sse:abc, the only collection
C20_Witness ==
    /\ ret.op = "save_bar_data"
    /\ ret.mixed
    /\ DOMAIN db = { <<"kline", "sse", "abc">> }
    /\ Count(db[<<"kline", "sse", "abc">>]) = 2
    /\ { o.period : o \in DOMAIN db[<<"kline", "sse", "abc">>] } = {"1m", "1h"}

====
